---- MODULE Spec2Model ----
(***************************************************************************)
(* VolumeVision: the Home session (src/src/app/page.tsx) and its camera    *)
(* view (src/src/components/volume-vision/camera-view.tsx) as a state      *)
(* machine.  React state, refs, interval timers and the promises in flight *)
(* (model load, getUserMedia, detector calls, confidence calls) are the    *)
(* variables; event handlers, timer callbacks, promise continuations and   *)
(* the flush of passive effects are the actions.                           *)
(*                                                                         *)
(* Rendering is a function of state, so a state update and the render it   *)
(* causes are one step.  Passive effects (useEffect) run after the commit: *)
(* synchronously for an update made in a discrete user event, in a later   *)
(* task for an update made in a timer callback or a promise continuation.  *)
(***************************************************************************)
EXTENDS Integers, Sequences, FiniteSets, TLC

VARIABLES
    mounted,                \* Home and CameraView are mounted
    liquidLevel,            \* page.tsx:24  slider value 0..100
    unit,                   \* page.tsx:25
    facingMode,             \* page.tsx:26
    isDetecting,            \* page.tsx:28
    confidence,             \* page.tsx:30  <<>> is null, <<[score |-> s]>> otherwise
    detectedObjects,        \* page.tsx:31  sequence of [label, box]
    hasCameraPermission,    \* page.tsx:34  "null", "true" or "false"
    modelRef,               \* page.tsx:36  "loading" (current = null), "loaded", "failed" (current = null)
    detectionIntervalRef,   \* page.tsx:37  0 is null, otherwise the id returned by setInterval
    dynamicLiquidLevel,     \* page.tsx:44  useMemo value of the last render
    volumeInMl,             \* page.tsx:84  useMemo value of the last render, in tenths of a millilitre
    timers,                 \* the active interval timers: [id, isDetecting, len] (the closure of runObjectDetection)
    pollerState,            \* "Idle" or "Polling": the branch the interval effect took when it last ran
    intervalDeps,           \* dependency values of the interval effect when it last ran
    confidenceDeps,         \* dependency values of the confidence effect when it last ran
    objsFresh,              \* detectedObjects was replaced by a new array since the confidence effect last ran
    detectCalls,            \* ids of the detector calls in flight
    detectCount,            \* number of detector calls started
    confCalls,              \* the confidence requests in flight: [id, volumeEstimate]
    confCount,              \* number of confidence requests issued
    toasts,                 \* number of notifications surfaced, per title
    streamRef,              \* camera-view.tsx:40  0 is null, otherwise a stream id
    liveStreams,            \* ids of the streams whose tracks are not stopped
    stopCalls,              \* stop() invocations on the tracks of streamRef.current in the last run of the stream effect
    camCalls,               \* the getUserMedia requests in flight: [id]
    camCount,               \* number of getUserMedia requests issued
    camFacing,              \* facingMode dependency of the stream effect when it last ran
    srcObject,              \* the stream attached to the video element, 0 if none
    videoReady              \* videoRef.current.readyState >= 2

vars == << mounted, liquidLevel, unit, facingMode, isDetecting, confidence,
           detectedObjects, hasCameraPermission, modelRef, detectionIntervalRef,
           dynamicLiquidLevel, volumeInMl, timers, pollerState, intervalDeps,
           confidenceDeps, objsFresh, detectCalls, detectCount, confCalls,
           confCount, toasts, streamRef, liveStreams, stopCalls, camCalls,
           camCount, camFacing, srcObject, videoReady >>

----------------------------------------------------------------------------
(* Bounds of the model. *)
MaxDetectCalls == 2
MaxCamCalls == 2

(* Program constants. *)
MAX_VOLUME_ML == 350
ScoreThresholdPct == 50
VideoWidth == 4
VideoHeight == 10

Units == {"ml", "oz"}
FacingModes == {"user", "environment"}
SliderValues == {50, 100}
Scores == {20, 90}
ToastTitles == {"Local AI model loaded", "Model Load Error", "Local AI Error",
                "Camera Access Denied"}

(* What the detector may return: class, score (in percent) and pixel bbox
   [x, y, width, height] on a VideoWidth x VideoHeight frame. *)
CupHigh == [class |-> "cup", score |-> 90, bbox |-> <<1, 1, 2, 8>>]
GlassMid == [class |-> "wine glass", score |-> 51, bbox |-> <<0, 5, 1, 4>>]
Person == [class |-> "person", score |-> 90, bbox |-> <<0, 0, 4, 10>>]
CupWeak == [class |-> "cup", score |-> 50, bbox |-> <<2, 3, 1, 1>>]
CupTop == [class |-> "cup", score |-> 90, bbox |-> <<1, 0, 2, 5>>]
DetectorOutputs ==
    { <<Person, CupWeak>>, <<GlassMid, Person, CupHigh>>, <<CupTop, GlassMid>> }

(* A wider range of detector results, for the session that only polls
   (DetectorSpec below).  The detector does not clip its boxes to the frame:
   a box may start above the top edge or reach beyond the right and bottom
   edges; it may be degenerate (width or height 0) or cover the whole frame. *)
Classes == {"cup", "wine glass", "person"}
PredictionScores == {50, 51}
Boxes ==
    { <<1, 1, 2, 8>>,       \* [0.25, 0.1, 0.75, 0.9]
      <<1, 0, 2, 5>>,       \* at the top edge
      <<0, 0, 4, 10>>,      \* the whole frame: boxHeight = 1
      <<2, -1, 1, 3>>,      \* starts above the frame
      <<3, 5, 2, 6>>,       \* reaches beyond the right and bottom edges
      <<2, 3, 0, 0>> }      \* zero size
Predictions == [class : Classes, score : PredictionScores, bbox : Boxes]
DetectorInputs ==
    {<<>>} \cup {<<p>> : p \in Predictions}
           \cup {<<p, q>> : p \in {CupHigh, GlassMid, Person, CupWeak},
                            q \in {CupHigh, GlassMid, Person, CupWeak}}

----------------------------------------------------------------------------
(* Pure helpers. *)

(* Mutant: a score equal to the threshold is accepted. *)
IsGlassAtThreshold(p) ==
    (p.class = "cup" \/ p.class = "wine glass") /\ p.score >= ScoreThresholdPct

(* page.tsx:131 *)
IsGlass(p) == (p.class = "cup" \/ p.class = "wine glass") /\ p.score > ScoreThresholdPct

(* Array.prototype.filter with the predicate of page.tsx:131 *)
RECURSIVE FilterGlasses(_)
FilterGlasses(s) ==
    IF s = <<>> THEN <<>>
    ELSE IF IsGlass(Head(s)) THEN <<Head(s)>> \o FilterGlasses(Tail(s))
         ELSE FilterGlasses(Tail(s))

(* page.tsx:132-141: a normalized coordinate is kept as the fraction
   [num, den] that the division produces. *)
Normalize(p) ==
    [label |-> p.class,
     box |-> << [num |-> p.bbox[1], den |-> VideoWidth],
                [num |-> p.bbox[2], den |-> VideoHeight],
                [num |-> p.bbox[1] + p.bbox[3], den |-> VideoWidth],
                [num |-> p.bbox[2] + p.bbox[4], den |-> VideoHeight] >>]

(* page.tsx:130-141 *)
Glasses(predictions) ==
    LET kept == FilterGlasses(predictions)
    IN  [i \in 1..Len(kept) |-> Normalize(kept[i])]

(* Math.round of the fraction n/d, d > 0: floor(n/d + 1/2). *)
MathRound(n, d) == (2 * n + d) \div (2 * d)

(* Mutant: the level is taken from the bottom edge of the box. *)
BoxLevelFromBottom(box) == MathRound(100 * box[4].den - 100 * box[4].num, box[4].den)

(* page.tsx:58: Math.round(100 - glass.box[1] * 100) *)
BoxLevel(box) == MathRound(100 * box[2].den - 100 * box[2].num, box[2].den)

(* Mutant: the level is taken from the last detection, not the first. *)
DynamicLiquidLevelLastBox(objs, level) ==
    IF Len(objs) = 0 THEN level ELSE BoxLevel(objs[Len(objs)].box)

(* page.tsx:44-60 *)
DynamicLiquidLevel(objs, level) ==
    IF Len(objs) = 0 THEN level ELSE BoxLevel(objs[1].box)

(* Mutant: the volume always follows the slider. *)
VolumeInMlFromSlider(objs, level, dyn) == (level * MAX_VOLUME_ML) \div 10

(* page.tsx:84-87, in tenths of a millilitre: (level / 100) * 350 *)
VolumeInMl(objs, level, dyn) ==
    ((IF Len(objs) = 0 THEN level ELSE dyn) * MAX_VOLUME_ML) \div 10

(* Mutant: the conversion factor is cut to 0.0338. *)
DisplayVolumeShortFactor(volume, u) ==
    IF u = "oz" THEN [num |-> volume * 338, den |-> 10 * 10000]
    ELSE [num |-> volume, den |-> 10]

(* camera-view.tsx:81-82: the displayed volume as a fraction; volume is in
   tenths of a millilitre and 0.033814 is 33814 / 1000000. *)
DisplayVolume(volume, u) ==
    IF u = "oz" THEN [num |-> volume * 33814, den |-> 10 * 1000000]
    ELSE [num |-> volume, den |-> 10]

(* page.tsx:206: the liquidLevel prop handed to CameraView *)
LiquidLevelProp == IF Len(detectedObjects) = 0 THEN liquidLevel ELSE dynamicLiquidLevel

----------------------------------------------------------------------------
(* The whole state as one record, so that effects are functions of state. *)

St == [mounted |-> mounted, liquidLevel |-> liquidLevel, unit |-> unit,
       facingMode |-> facingMode, isDetecting |-> isDetecting,
       confidence |-> confidence, detectedObjects |-> detectedObjects,
       hasCameraPermission |-> hasCameraPermission, modelRef |-> modelRef,
       detectionIntervalRef |-> detectionIntervalRef,
       dynamicLiquidLevel |-> dynamicLiquidLevel, volumeInMl |-> volumeInMl,
       timers |-> timers, pollerState |-> pollerState,
       intervalDeps |-> intervalDeps, confidenceDeps |-> confidenceDeps,
       objsFresh |-> objsFresh, detectCalls |-> detectCalls,
       detectCount |-> detectCount, confCalls |-> confCalls,
       confCount |-> confCount, toasts |-> toasts, streamRef |-> streamRef,
       liveStreams |-> liveStreams, stopCalls |-> stopCalls,
       camCalls |-> camCalls, camCount |-> camCount, camFacing |-> camFacing,
       srcObject |-> srcObject, videoReady |-> videoReady]

Apply(n) ==
    /\ mounted' = n.mounted
    /\ liquidLevel' = n.liquidLevel
    /\ unit' = n.unit
    /\ facingMode' = n.facingMode
    /\ isDetecting' = n.isDetecting
    /\ confidence' = n.confidence
    /\ detectedObjects' = n.detectedObjects
    /\ hasCameraPermission' = n.hasCameraPermission
    /\ modelRef' = n.modelRef
    /\ detectionIntervalRef' = n.detectionIntervalRef
    /\ dynamicLiquidLevel' = n.dynamicLiquidLevel
    /\ volumeInMl' = n.volumeInMl
    /\ timers' = n.timers
    /\ pollerState' = n.pollerState
    /\ intervalDeps' = n.intervalDeps
    /\ confidenceDeps' = n.confidenceDeps
    /\ objsFresh' = n.objsFresh
    /\ detectCalls' = n.detectCalls
    /\ detectCount' = n.detectCount
    /\ confCalls' = n.confCalls
    /\ confCount' = n.confCount
    /\ toasts' = n.toasts
    /\ streamRef' = n.streamRef
    /\ liveStreams' = n.liveStreams
    /\ stopCalls' = n.stopCalls
    /\ camCalls' = n.camCalls
    /\ camCount' = n.camCount
    /\ camFacing' = n.camFacing
    /\ srcObject' = n.srcObject
    /\ videoReady' = n.videoReady

(* Mutant: the slider is never disabled. *)
IsSimulatingAlways(h) == TRUE

(* page.tsx:41: isSimulating = detectedObjects.length === 0 *)
IsSimulating(h) == Len(h.detectedObjects) = 0

(* A render of Home: the two useMemo values are recomputed from the state. *)
Render(h) ==
    LET dyn == DynamicLiquidLevel(h.detectedObjects, h.liquidLevel)
    IN  [h EXCEPT !.dynamicLiquidLevel = dyn,
                  !.volumeInMl = VolumeInMl(h.detectedObjects, h.liquidLevel, dyn)]

(* setDetectedObjects(objs) (mounted component): a new array every time. *)
SetDetectedObjects(h, objs) ==
    IF h.mounted THEN Render([h EXCEPT !.detectedObjects = objs, !.objsFresh = TRUE])
    ELSE h

(* toast({title}) *)
Toast(h, title) == [h EXCEPT !.toasts[title] = @ + 1]

----------------------------------------------------------------------------
(* The detection interval effect, page.tsx:154-169. *)

(* [isDetecting, hasCameraPermission, runObjectDetection]; runObjectDetection
   is a new function when isDetecting or detectedObjects.length changes
   (page.tsx:152; toast is stable). *)
IntervalDepsOf(h) == <<h.isDetecting, h.hasCameraPermission, Len(h.detectedObjects)>>

(* page.tsx:155 *)
ShouldPoll(h) == h.isDetecting /\ h.modelRef = "loaded" /\ h.hasCameraPermission = "true"

(* setInterval returns an id that no active timer has.  The id of a cleared
   timer is used again: detectionIntervalRef is overwritten by every
   setInterval (page.tsx:156), so an id it held before names no other timer. *)
NewTimerId(h) ==
    CHOOSE i \in 1..(Cardinality(h.timers) + 1) : i \notin {t.id : t \in h.timers}

(* Mutant: the timer is not cleared. *)
ClearIntervalForgotten(ts, id) == ts

(* clearInterval(id) *)
ClearInterval(ts, id) == {t \in ts : t.id # id}

(* Mutant: the effect has no cleanup. *)
IntervalCleanupMissing(h) == [h EXCEPT !.pollerState = "Idle"]

(* page.tsx:164-168 *)
IntervalCleanup(h) ==
    [h EXCEPT !.timers = IF h.detectionIntervalRef # 0
                         THEN ClearInterval(@, h.detectionIntervalRef) ELSE @,
              !.pollerState = "Idle"]

(* page.tsx:155-162; the setDetectedObjects([]) of line 161 is applied by
   FlushHome once the effects of this commit have run. *)
IntervalBody(h) ==
    IF ShouldPoll(h)
    THEN LET id == NewTimerId(h)
         IN  [h EXCEPT !.timers = @ \cup {[id |-> id, isDetecting |-> h.isDetecting,
                                          len |-> Len(h.detectedObjects)]},
                       !.detectionIntervalRef = id,
                       !.pollerState = "Polling"]
    ELSE [h EXCEPT !.timers = IF h.detectionIntervalRef # 0
                              THEN ClearInterval(@, h.detectionIntervalRef) ELSE @,
                   !.pollerState = "Idle"]

----------------------------------------------------------------------------
(* The confidence effect, page.tsx:172-174, and updateConfidence, 89-113. *)

(* [volumeInMl, detectedObjects.length, updateConfidence]; updateConfidence is
   a new function when isDetecting, liquidLevel, detectedObjects (the array
   itself: objsFresh), isSimulating or dynamicLiquidLevel changes. *)
ConfidenceDepsOf(h) ==
    <<h.volumeInMl, Len(h.detectedObjects), h.isDetecting, h.liquidLevel,
      h.dynamicLiquidLevel>>

(* Mutant: the guard of line 90 does not look at the detection list. *)
UpdateConfidenceNoEmptyCheck(h) ==
    IF ~h.isDetecting
    THEN [h EXCEPT !.confidence = <<>>]
    ELSE [h EXCEPT !.confCount = @ + 1,
                   !.confCalls = @ \cup {[id |-> h.confCount + 1,
                                          volumeEstimate |-> h.volumeInMl]}]

(* page.tsx:89-102: up to the await of line 104. *)
UpdateConfidence(h) ==
    IF ~h.isDetecting \/ Len(h.detectedObjects) = 0
    THEN [h EXCEPT !.confidence = <<>>]
    ELSE [h EXCEPT !.confCount = @ + 1,
                   !.confCalls = @ \cup {[id |-> h.confCount + 1,
                                          volumeEstimate |-> h.volumeInMl]}]

----------------------------------------------------------------------------
(* The stream effect of CameraView, camera-view.tsx:43-79. *)

(* streamRef.current.getTracks().forEach(track => track.stop()) *)
StopTracks(h) ==
    IF h.streamRef # 0
    THEN [h EXCEPT !.liveStreams = @ \ {h.streamRef},
                   !.stopCalls = @ + 1]
    ELSE h

(* camera-view.tsx:74-78 *)
StreamCleanup(h) == StopTracks([h EXCEPT !.stopCalls = 0])

(* camera-view.tsx:44-53 and 72: up to the await of getUserMedia. *)
StreamBody(h) ==
    LET s == StopTracks(h)
    IN  [s EXCEPT !.camCount = @ + 1,
                  !.camCalls = @ \cup {[id |-> s.camCount + 1]},
                  !.camFacing = s.facingMode]

----------------------------------------------------------------------------
(* The flush of the passive effects of one commit: cleanups of the effects
   whose dependencies changed, then their bodies, CameraView before Home. *)

FlushCamera(h) ==
    IF h.facingMode # h.camFacing THEN StreamBody(StreamCleanup(h)) ELSE h

(* The dependencies of the interval effect differ from those of its last run. *)
IntervalEffectDue(h) == IntervalDepsOf(h) # h.intervalDeps

(* Mutant: the confidence effect depends on detectedObjects.length only. *)
ConfidenceEffectDueOnLength(h) == Len(h.detectedObjects) # h.confidenceDeps[2]

(* The dependencies of the confidence effect differ from those of its last run. *)
ConfidenceEffectDue(h) == h.objsFresh \/ ConfidenceDepsOf(h) # h.confidenceDeps

FlushHome(h) ==
    LET ic == IntervalEffectDue(h)
        cc == ConfidenceEffectDue(h)
        a  == IF ic THEN [IntervalBody(IntervalCleanup(h)) EXCEPT
                             !.intervalDeps = IntervalDepsOf(h)]
              ELSE h
        b  == IF cc THEN [UpdateConfidence(a) EXCEPT
                             !.confidenceDeps = ConfidenceDepsOf(h),
                             !.objsFresh = FALSE]
              ELSE a
    IN  IF ic /\ ~ShouldPoll(h) THEN SetDetectedObjects(b, <<>>) ELSE b

Flush(h) == FlushHome(FlushCamera(h))

EffectsPending(h) ==
    /\ h.mounted
    /\ \/ IntervalEffectDue(h)
       \/ ConfidenceEffectDue(h)
       \/ h.facingMode # h.camFacing

(* React runs the passive effects still pending from the last commit before
   it renders the next update: a step that sets state of the mounted view is
   taken with no effects pending. *)
CommitAllowed(h) == ~EffectsPending(h)

(* The model stops starting detector calls at MaxDetectCalls and
   getUserMedia requests at MaxCamCalls. *)
WithinBounds(n) ==
    /\ n.camCount <= MaxCamCalls
    /\ n.detectCount <= MaxDetectCalls

----------------------------------------------------------------------------
(* The state after the first render and its mount effects: the stream effect
   has issued the first getUserMedia request, loadModel is awaiting, the
   interval effect took its else branch (modelRef.current and
   hasCameraPermission are null) and the confidence effect published null. *)

FirstRender ==
    [mounted |-> TRUE, liquidLevel |-> 50, unit |-> "ml",
     facingMode |-> "environment", isDetecting |-> TRUE,
     confidence |-> <<>>, detectedObjects |-> <<>>,
     hasCameraPermission |-> "null", modelRef |-> "loading",
     detectionIntervalRef |-> 0,
     dynamicLiquidLevel |-> DynamicLiquidLevel(<<>>, 50),
     volumeInMl |-> VolumeInMl(<<>>, 50, 50),
     timers |-> {}, pollerState |-> "Idle",
     intervalDeps |-> <<TRUE, "null", 0>>,
     confidenceDeps |-> <<VolumeInMl(<<>>, 50, 50), 0, TRUE, 50, 50>>,
     objsFresh |-> FALSE, detectCalls |-> {}, detectCount |-> 0,
     confCalls |-> {}, confCount |-> 0,
     toasts |-> [t \in ToastTitles |-> 0], streamRef |-> 0,
     liveStreams |-> {}, stopCalls |-> 0,
     camCalls |-> {}, camCount |-> 0, camFacing |-> "environment",
     srcObject |-> 0, videoReady |-> FALSE]

Mounted ==
    SetDetectedObjects(UpdateConfidence(IntervalBody(StreamBody(FirstRender))), <<>>)

Init ==
    /\ mounted = Mounted.mounted
    /\ liquidLevel = Mounted.liquidLevel
    /\ unit = Mounted.unit
    /\ facingMode = Mounted.facingMode
    /\ isDetecting = Mounted.isDetecting
    /\ confidence = Mounted.confidence
    /\ detectedObjects = Mounted.detectedObjects
    /\ hasCameraPermission = Mounted.hasCameraPermission
    /\ modelRef = Mounted.modelRef
    /\ detectionIntervalRef = Mounted.detectionIntervalRef
    /\ dynamicLiquidLevel = Mounted.dynamicLiquidLevel
    /\ volumeInMl = Mounted.volumeInMl
    /\ timers = Mounted.timers
    /\ pollerState = Mounted.pollerState
    /\ intervalDeps = Mounted.intervalDeps
    /\ confidenceDeps = Mounted.confidenceDeps
    /\ objsFresh = Mounted.objsFresh
    /\ detectCalls = Mounted.detectCalls
    /\ detectCount = Mounted.detectCount
    /\ confCalls = Mounted.confCalls
    /\ confCount = Mounted.confCount
    /\ toasts = Mounted.toasts
    /\ streamRef = Mounted.streamRef
    /\ liveStreams = Mounted.liveStreams
    /\ stopCalls = Mounted.stopCalls
    /\ camCalls = Mounted.camCalls
    /\ camCount = Mounted.camCount
    /\ camFacing = Mounted.camFacing
    /\ srcObject = Mounted.srcObject
    /\ videoReady = Mounted.videoReady

----------------------------------------------------------------------------
(* User events.  React flushes the passive effects still pending before it
   handles a discrete event, and flushes the effects of the event's own
   commit synchronously; so a user event is taken with no effects pending
   and includes the flush of its commit. *)

UserEvent(h) ==
    /\ mounted
    /\ CommitAllowed(St)
    /\ WithinBounds(Flush(Render(h)))
    /\ Apply(Flush(Render(h)))

(* page.tsx:231-236: the Switch, disabled while hasCameraPermission is not true *)
ToggleDetection ==
    /\ hasCameraPermission = "true"
    /\ UserEvent([St EXCEPT !.isDetecting = ~isDetecting])

(* page.tsx:176-178 and 240-248: the Slider, disabled while not simulating *)
HandleLiquidLevelChange(v) ==
    /\ IsSimulating(St)
    /\ v # liquidLevel
    /\ UserEvent([St EXCEPT !.liquidLevel = v])

(* page.tsx:180-182 *)
HandleUnitChange(u) ==
    /\ u # unit
    /\ UserEvent([St EXCEPT !.unit = u])

(* page.tsx:184-186 *)
HandleFacingModeChange(m) ==
    /\ m # facingMode
    /\ UserEvent([St EXCEPT !.facingMode = m])

(* The view unmounts: every effect's cleanup runs and React discards the
   state of Home (kept here at its useState initial values); the refs, the
   timers, the streams and the promises in flight are not part of it. *)
Unmounted(h) ==
    LET c == StreamCleanup(IntervalCleanup(h))
    IN  [c EXCEPT !.mounted = FALSE,
                  !.liquidLevel = FirstRender.liquidLevel,
                  !.unit = FirstRender.unit,
                  !.facingMode = FirstRender.facingMode,
                  !.isDetecting = FirstRender.isDetecting,
                  !.confidence = FirstRender.confidence,
                  !.detectedObjects = FirstRender.detectedObjects,
                  !.hasCameraPermission = FirstRender.hasCameraPermission,
                  !.dynamicLiquidLevel = FirstRender.dynamicLiquidLevel,
                  !.volumeInMl = FirstRender.volumeInMl,
                  !.intervalDeps = FirstRender.intervalDeps,
                  !.confidenceDeps = FirstRender.confidenceDeps,
                  !.objsFresh = FALSE,
                  !.camFacing = FirstRender.camFacing,
                  !.srcObject = 0,
                  !.videoReady = FALSE]

Unmount ==
    /\ mounted
    /\ CommitAllowed(St)
    /\ Apply(Unmounted(St))

----------------------------------------------------------------------------
(* loadModel, page.tsx:62-82 *)

ModelLoadResolve ==
    /\ modelRef = "loading"
    /\ Apply(Toast([St EXCEPT !.modelRef = "loaded"], "Local AI model loaded"))

(* Mutant: the catch block of loadModel notifies nobody. *)
ModelLoadFailedSilently(h) == [h EXCEPT !.modelRef = "failed"]

(* page.tsx:73-80; modelRef.current stays null *)
ModelLoadFailed(h) == Toast([h EXCEPT !.modelRef = "failed"], "Model Load Error")

ModelLoadReject ==
    /\ modelRef = "loading"
    /\ Apply(ModelLoadFailed(St))

----------------------------------------------------------------------------
(* getCameraPermission, camera-view.tsx:49-70 *)

(* camera-view.tsx:54-59; setHasCameraPermission and videoRef.current exist
   only while the view is mounted. *)
CameraGranted(h, r) ==
    LET s == [h EXCEPT !.camCalls = @ \ {r},
                       !.liveStreams = @ \cup {r.id},
                       !.streamRef = r.id]
    IN  IF h.mounted
        THEN [s EXCEPT !.hasCameraPermission = "true",
                       !.srcObject = r.id,
                       !.videoReady = FALSE]
        ELSE s

(* camera-view.tsx:60-69 *)
CameraDenied(h, r) ==
    LET s == Toast([h EXCEPT !.camCalls = @ \ {r}], "Camera Access Denied")
    IN  IF h.mounted THEN [s EXCEPT !.hasCameraPermission = "false"] ELSE s

CameraResolve(r) == CommitAllowed(St) /\ Apply(CameraGranted(St, r))

CameraReject(r) == CommitAllowed(St) /\ Apply(CameraDenied(St, r))

(* The video element changes readyState: it reaches readyState >= 2 when the
   attached stream, with live tracks, has delivered a frame, and may fall
   below it when the tracks of the attached stream were stopped. *)
VideoReadyState ==
    /\ mounted
    /\ srcObject # 0
    /\ videoReady = (srcObject \notin liveStreams)
    /\ Apply([St EXCEPT !.videoReady = ~videoReady])

----------------------------------------------------------------------------
(* runObjectDetection, page.tsx:115-152, called by the interval timer t with
   the isDetecting and detectedObjects.length of the render that built it. *)

(* page.tsx:116-121 *)
DetectionGuardFails(h, t) ==
    \/ ~t.isDetecting
    \/ h.modelRef # "loaded"
    \/ ~h.mounted
    \/ ~h.videoReady

(* page.tsx:116-129: up to the await of detect(). *)
RunObjectDetection(h, t) ==
    IF DetectionGuardFails(h, t)
    THEN IF t.len > 0 THEN SetDetectedObjects(h, <<>>) ELSE h
    ELSE [h EXCEPT !.detectCount = @ + 1,
                   !.detectCalls = @ \cup {h.detectCount + 1}]

TimerTick(t) ==
    /\ (DetectionGuardFails(St, t) /\ t.len > 0) => CommitAllowed(St)
    /\ WithinBounds(RunObjectDetection(St, t))
    /\ Apply(RunObjectDetection(St, t))

(* page.tsx:130-142 *)
DetectSucceeded(h, c, predictions) ==
    SetDetectedObjects([h EXCEPT !.detectCalls = @ \ {c}], Glasses(predictions))

(* Mutant: the catch block notifies but keeps the previous list. *)
DetectFailedKeepsList(h, c) ==
    Toast([h EXCEPT !.detectCalls = @ \ {c}], "Local AI Error")

(* page.tsx:143-151 *)
DetectFailed(h, c) ==
    Toast(SetDetectedObjects([h EXCEPT !.detectCalls = @ \ {c}], <<>>), "Local AI Error")

DetectResolve(c, predictions) ==
    CommitAllowed(St) /\ Apply(DetectSucceeded(St, c, predictions))

DetectReject(c) == CommitAllowed(St) /\ Apply(DetectFailed(St, c))

----------------------------------------------------------------------------
(* The continuation of updateConfidence, page.tsx:104-111 *)

(* page.tsx:105 *)
ConfidenceSucceeded(h, r, score) ==
    LET s == [h EXCEPT !.confCalls = @ \ {r}]
    IN  IF h.mounted THEN [s EXCEPT !.confidence = <<[score |-> score]>>]
        ELSE s

(* Mutant: the catch block keeps the earlier score. *)
ConfidenceFailedKeepsScore(h, r) == [h EXCEPT !.confCalls = @ \ {r}]

(* page.tsx:106-111 *)
ConfidenceFailed(h, r) ==
    LET s == [h EXCEPT !.confCalls = @ \ {r}]
    IN  IF h.mounted THEN [s EXCEPT !.confidence = <<>>] ELSE s

ConfidenceResolve(r, score) ==
    CommitAllowed(St) /\ Apply(ConfidenceSucceeded(St, r, score))

ConfidenceReject(r) == CommitAllowed(St) /\ Apply(ConfidenceFailed(St, r))

----------------------------------------------------------------------------
(* The passive effects of a commit made outside a discrete event run in a
   later task. *)
FlushEffects ==
    /\ EffectsPending(St)
    /\ WithinBounds(Flush(St))
    /\ Apply(Flush(St))

(* The live pipeline: every step of the session but the choice of the display
   unit, which no handler, effect or callback reads (only displayVolume,
   camera-view.tsx:81-82, does). *)
PipelineNext ==
    \/ ToggleDetection
    \/ \E v \in SliderValues : HandleLiquidLevelChange(v)
    \/ \E m \in FacingModes : HandleFacingModeChange(m)
    \/ Unmount
    \/ ModelLoadResolve
    \/ ModelLoadReject
    \/ \E r \in camCalls : CameraResolve(r)
    \/ \E r \in camCalls : CameraReject(r)
    \/ VideoReadyState
    \/ \E t \in timers : TimerTick(t)
    \/ \E c \in detectCalls, p \in DetectorOutputs : DetectResolve(c, p)
    \/ \E c \in detectCalls : DetectReject(c)
    \/ \E r \in confCalls, s \in Scores : ConfidenceResolve(r, s)
    \/ \E r \in confCalls : ConfidenceReject(r)
    \/ FlushEffects

Next ==
    \/ PipelineNext
    \/ \E u \in Units : HandleUnitChange(u)

Spec == Init /\ [][Next]_vars

PipelineSpec == Init /\ [][PipelineNext]_vars

----------------------------------------------------------------------------
(* The polling session on its own: the view is mounted, detection is enabled
   (the default), the model is loaded, getUserMedia has resolved, the video
   has a frame and the interval effect has installed its timer; from there
   only the timer, the detector, the confidence service and the effects act,
   and the detector answers with any of DetectorInputs. *)

PollingStarted ==
    LET loaded  == Toast([Mounted EXCEPT !.modelRef = "loaded"], "Local AI model loaded")
        granted == CameraGranted(loaded, [id |-> 1])
    IN  Flush([granted EXCEPT !.videoReady = TRUE])

DetectorInit ==
    /\ mounted = PollingStarted.mounted
    /\ liquidLevel = PollingStarted.liquidLevel
    /\ unit = PollingStarted.unit
    /\ facingMode = PollingStarted.facingMode
    /\ isDetecting = PollingStarted.isDetecting
    /\ confidence = PollingStarted.confidence
    /\ detectedObjects = PollingStarted.detectedObjects
    /\ hasCameraPermission = PollingStarted.hasCameraPermission
    /\ modelRef = PollingStarted.modelRef
    /\ detectionIntervalRef = PollingStarted.detectionIntervalRef
    /\ dynamicLiquidLevel = PollingStarted.dynamicLiquidLevel
    /\ volumeInMl = PollingStarted.volumeInMl
    /\ timers = PollingStarted.timers
    /\ pollerState = PollingStarted.pollerState
    /\ intervalDeps = PollingStarted.intervalDeps
    /\ confidenceDeps = PollingStarted.confidenceDeps
    /\ objsFresh = PollingStarted.objsFresh
    /\ detectCalls = PollingStarted.detectCalls
    /\ detectCount = PollingStarted.detectCount
    /\ confCalls = PollingStarted.confCalls
    /\ confCount = PollingStarted.confCount
    /\ toasts = PollingStarted.toasts
    /\ streamRef = PollingStarted.streamRef
    /\ liveStreams = PollingStarted.liveStreams
    /\ stopCalls = PollingStarted.stopCalls
    /\ camCalls = PollingStarted.camCalls
    /\ camCount = PollingStarted.camCount
    /\ camFacing = PollingStarted.camFacing
    /\ srcObject = PollingStarted.srcObject
    /\ videoReady = PollingStarted.videoReady

DetectorNext ==
    \/ \E t \in timers : TimerTick(t)
    \/ \E c \in detectCalls, p \in DetectorInputs : DetectResolve(c, p)
    \/ \E c \in detectCalls : DetectReject(c)
    \/ \E r \in confCalls, s \in Scores : ConfidenceResolve(r, s)
    \/ \E r \in confCalls : ConfidenceReject(r)
    \/ FlushEffects

DetectorSpec == DetectorInit /\ [][DetectorNext]_vars

(* The polling session with the two controls that feed the display: the
   slider, which reaches its lower end here, and the unit setting. *)
DisplayNext ==
    \/ DetectorNext
    \/ \E v \in SliderValues \cup {0} : HandleLiquidLevelChange(v)
    \/ \E u \in Units : HandleUnitChange(u)

DisplaySpec == DetectorInit /\ [][DisplayNext]_vars

----------------------------------------------------------------------------
(* Properties. *)

(* C1: the liquid level handed to the display is the level of the first
   detection's box while the detection list is non-empty, and the slider
   value while it is empty (so also right after the list became empty). *)
C1_DisplayedLevelSource ==
    /\ Len(detectedObjects) > 0 => LiquidLevelProp = BoxLevel(detectedObjects[1].box)
    /\ Len(detectedObjects) = 0 => LiquidLevelProp = liquidLevel

C1_Witness ==
    /\ Len(detectedObjects) > 1
    /\ LiquidLevelProp # liquidLevel
    /\ BoxLevel(detectedObjects[1].box) # BoxLevel(detectedObjects[Len(detectedObjects)].box)

(* C2: whenever detection is enabled, permission is granted and the model is
   loaded, and no effect is left to run, the poller is Polling with a live
   timer -- whatever the order of grant, load and toggle was. *)
C2_PollingWhenReady ==
    (mounted /\ ShouldPoll(St) /\ ~EffectsPending(St))
        => (pollerState = "Polling" /\ timers # {})

(* C3: the response of a confidence request that is not the latest one issued
   leaves the published confidence as it is. *)
C3_StaleResponseIgnored ==
    [][ \A r \in confCalls :
            (r.id < confCount /\ confCalls' = confCalls \ {r})
                => confidence' = confidence ]_vars

(* C4: a detector call or a confidence call that completes while detection is
   disabled leaves the detection list empty and the confidence null; one that
   completes after the view was torn down changes neither. *)
C4_LateResultIgnored ==
    [][ ((detectCalls' # detectCalls /\ detectCalls' \subseteq detectCalls)
          \/ (confCalls' # confCalls /\ confCalls' \subseteq confCalls))
        => /\ (mounted /\ ~isDetecting)
                => (detectedObjects' = <<>> /\ confidence' = <<>>)
           /\ ~mounted
                => (detectedObjects' = detectedObjects /\ confidence' = confidence) ]_vars

(* C5: while detection is disabled no step starts a detector call. *)
C5_NoCallWhileDisabled ==
    [][ ~isDetecting => detectCount' = detectCount ]_vars

C5_Witness ==
    /\ mounted /\ ~isDetecting
    /\ hasCameraPermission = "true" /\ modelRef = "loaded" /\ videoReady
    /\ detectCount > 0 /\ detectCount < MaxDetectCalls

(* C6: while detection is disabled or camera permission is not granted, the
   published detection list is empty. *)
C6_InactiveMeansEmpty ==
    (mounted /\ (~isDetecting \/ hasCameraPermission # "true"))
        => detectedObjects = <<>>

(* C7: at most one interval timer is active, and exactly one while the poller
   is Polling. *)
C7_OneTimer ==
    /\ Cardinality(timers) <= 1
    /\ pollerState = "Polling" => Cardinality(timers) = 1

C7_Witness ==
    /\ pollerState = "Polling"
    /\ Len(detectedObjects) > 0
    /\ ~EffectsPending(St)
    /\ toasts["Camera Access Denied"] > 0

(* C8: a failed detector call empties the published list, surfaces one
   "Local AI Error" notification and leaves the timer alone; and the poller
   stays Polling, with a timer whose callback passes the isDetecting guard,
   across every step after which detection is still enabled with permission
   and model ready. *)
C8_DetectFailureRecoverable ==
    [][ /\ \A c \in detectCalls :
              DetectReject(c) =>
                  /\ mounted => detectedObjects' = <<>>
                  /\ toasts'["Local AI Error"] = toasts["Local AI Error"] + 1
                  /\ timers' = timers
        /\ (pollerState = "Polling" /\ mounted' /\ ShouldPoll(St)')
              => (pollerState' = "Polling" /\ \E t \in timers' : t.isDetecting) ]_vars

C8_Witness ==
    /\ toasts["Local AI Error"] > 0
    /\ pollerState = "Polling"
    /\ detectedObjects = <<>>
    /\ detectCalls = {detectCount}
    /\ detectCount > 1

(* C9: a failed confidence call publishes null, surfaces no notification and
   touches nothing else of the session. *)
C9_ConfidenceFailureSilent ==
    [][ \A r \in confCalls :
            ConfidenceReject(r) =>
                /\ mounted => confidence' = <<>>
                /\ toasts' = toasts
                /\ detectedObjects' = detectedObjects
                /\ timers' = timers /\ pollerState' = pollerState ]_vars

C9_Witness ==
    /\ mounted
    /\ confidence # <<>>
    /\ confCalls # {}

(* C10: a run of the confidence effect with detection disabled or with an
   empty detection list publishes null in that step and issues no request. *)
C10_NullWithoutRequest ==
    [][ ( \/ ConfidenceEffectDue(St)
                /\ (~isDetecting \/ Len(detectedObjects) = 0)
                /\ FlushEffects
          \/ isDetecting' # isDetecting
                /\ (isDetecting \/ Len(detectedObjects) = 0)
                /\ ToggleDetection
          \/ liquidLevel' # liquidLevel
                /\ \E v \in SliderValues : HandleLiquidLevelChange(v) )
        => (confidence' = <<>> /\ confCount' = confCount /\ confCalls' = confCalls) ]_vars

C10_Witness ==
    /\ mounted
    /\ ConfidenceEffectDue(St)
    /\ ~isDetecting \/ Len(detectedObjects) = 0
    /\ confidence # <<>>

(* C11: a step that changes the volume estimate or the detection list, and
   after which detection is enabled with at least one object detected, is
   taken with no earlier effect run outstanding and leaves the confidence
   effect due; the run of the effect that is due in such a state issues
   exactly one request; and no step issues more than one. *)
C11_OneRequestPerChange ==
    [][ /\ confCount' \in {confCount, confCount + 1}
        /\ ( (detectedObjects' # detectedObjects \/ volumeInMl' # volumeInMl)
               /\ mounted' /\ isDetecting' /\ Len(detectedObjects') > 0 )
              => ( ~EffectsPending(St)
                   /\ confCount' = confCount
                   /\ ConfidenceEffectDue(St)' )
        /\ ( ConfidenceEffectDue(St)
               /\ isDetecting /\ Len(detectedObjects) > 0
               /\ FlushEffects )
              => ( confCount' = confCount + 1
                   /\ (\E r \in confCalls' \ confCalls :
                          r.id = confCount' /\ r.volumeEstimate = volumeInMl) ) ]_vars

C11_Witness ==
    /\ mounted /\ isDetecting /\ Len(detectedObjects) > 0
    /\ ~EffectsPending(St)
    /\ confCount = 2
    /\ \E r \in confCalls : r.id = 2 /\ r.volumeEstimate = volumeInMl
    /\ \E r \in confCalls : r.id = 1 /\ r.volumeEstimate # volumeInMl

(* C12: while the view is mounted at most one camera stream has live tracks,
   whatever the interleaving of facing-mode switches and camera requests. *)
C12_OneLiveStream == mounted => Cardinality(liveStreams) <= 1

(* C13: a facing-mode switch made while a stream is open invokes stop on the
   tracks of that stream exactly once, and the stream is stopped in the step
   that issues the new camera request. *)
C13_OldStreamStoppedOnce ==
    [][ ((\E m \in FacingModes : HandleFacingModeChange(m))
            /\ streamRef \in liveStreams)
        => ( stopCalls' = 1
             /\ streamRef \notin liveStreams'
             /\ camCount' = camCount + 1 ) ]_vars

(* C14: while a detection is published, the level the estimator returned
   for the first box, if its boxHeight = yMax - yMin is below 1, is
   clamp(100 - (yMin / (1 - boxHeight)) * 100, 0, 100).  With yMin = a/H and
   yMax = c/H, yMin / (1 - boxHeight) is the fraction a / (H - c + a). *)
C14_EstimatorFormula ==
    Len(detectedObjects) > 0 =>
        LET box == detectedObjects[1].box
            a   == box[2].num
            q   == box[2].den - box[4].num + box[2].num
            raw == 100 * q - 100 * a      \* (100 - (a / q) * 100) * q
            n   == dynamicLiquidLevel
        IN  q > 0 =>
                IF raw < 0 THEN n = 0
                ELSE IF raw > 100 * q THEN n = 100
                ELSE n * q = raw

(* C15: while a detection is published, the level the estimator returned is
   within 0..100. *)
C15_EstimatorInRange ==
    Len(detectedObjects) > 0 => (dynamicLiquidLevel >= 0 /\ dynamicLiquidLevel <= 100)

(* C16: while the first published box has yMin = 0 and a height below 1, the
   level the estimator returned is exactly 100. *)
C16_TopEdgeIsFull ==
    ( /\ Len(detectedObjects) > 0
      /\ detectedObjects[1].box[2].num = 0
      /\ detectedObjects[1].box[4].num - detectedObjects[1].box[2].num
            < detectedObjects[1].box[2].den )
        => (dynamicLiquidLevel = 100 /\ LiquidLevelProp = 100)

C16_Witness ==
    /\ Len(detectedObjects) > 0
    /\ detectedObjects[1].box[2].num = 0
    /\ detectedObjects[1].box[4].num > 0
    /\ detectedObjects[1].box[4].num < detectedObjects[1].box[4].den
    /\ dynamicLiquidLevel = 100
    /\ liquidLevel # 100

(* C17: the step of a successful poll of the mounted view publishes exactly the predictions of
   that poll whose label is cup or wine glass and whose score is above the
   threshold, in the detector's order: the published list has one element per
   accepted prediction, taken at increasing positions of the prediction list,
   and nothing else. *)
C17_PublishedIsFiltered ==
    [][ \A c \in detectCalls \ detectCalls', p \in DetectorInputs :
            (mounted /\ DetectResolve(c, p)) =>
                LET accepted == {j \in 1..Len(p) :
                                    /\ p[j].class \in {"cup", "wine glass"}
                                    /\ p[j].score > ScoreThresholdPct}
                    n == Len(detectedObjects')
                IN  /\ n = Cardinality(accepted)
                    /\ \E f \in [1..n -> accepted] :
                          /\ \A i, j \in 1..n : i < j => f[i] < f[j]
                          /\ \A i \in 1..n :
                                detectedObjects'[i] = Normalize(p[f[i]]) ]_vars

C17_Witness ==
    /\ Len(detectedObjects) = 2
    /\ detectedObjects[1].label = "wine glass"
    /\ detectedObjects[2].label = "cup"
    /\ detectCount = 2
    /\ detectCalls = {}

(* C18: every published box has its four coordinates within [0, 1], with
   xMin < xMax and yMin < yMax (xMin and xMax are fractions of the frame
   width, yMin and yMax of the frame height). *)
C18_BoxesNormalized ==
    \A i \in 1..Len(detectedObjects) :
        LET box == detectedObjects[i].box
        IN  /\ \A k \in 1..4 : box[k].num >= 0 /\ box[k].num <= box[k].den
            /\ box[1].den = box[3].den /\ box[1].num < box[3].num
            /\ box[2].den = box[4].den /\ box[2].num < box[4].num

(* C19: the volume estimate (kept in tenths of a millilitre) is the level
   handed to the display, divided by 100 and multiplied by 350 ml: 0 at level
   0, 350 ml at level 100, and never negative. *)
C19_VolumeFromDisplayedLevel ==
    /\ volumeInMl * 100 = LiquidLevelProp * 350 * 10
    /\ LiquidLevelProp = 0 => volumeInMl = 0
    /\ LiquidLevelProp = 100 => volumeInMl = 3500
    /\ volumeInMl >= 0

C19_Witness ==
    /\ Len(detectedObjects) > 0
    /\ liquidLevel = 0
    /\ LiquidLevelProp = 100
    /\ volumeInMl = 3500

(* C20: the displayed volume is the millilitre volume times 0.033814 when the
   unit is oz and the millilitre volume itself when the unit is ml, before
   and after every step; and a change of the unit leaves the millilitre
   volume, the level, the slider value, the detection list and the confidence
   as they are. *)
C20_UnitConversion ==
    [][ /\ \A u \in Units, vol \in {volumeInMl, volumeInMl'} :
              LET shown == DisplayVolume(vol, u)
              IN  /\ shown.den > 0
                  \* (vol / 10) * (33814 / 1000000), over the denominator 10^7
                  /\ u = "oz" => /\ 10000000 % shown.den = 0
                                 /\ shown.num * (10000000 \div shown.den) = vol * 33814
                  \* vol / 10, over the denominator 10
                  /\ u = "ml" => /\ 10 % shown.den = 0
                                 /\ shown.num * (10 \div shown.den) = vol
        /\ \A u \in Units :
              HandleUnitChange(u) =>
                  /\ unit' = u
                  /\ UNCHANGED <<volumeInMl, dynamicLiquidLevel, liquidLevel,
                                 detectedObjects, confidence, confCalls, confCount>> ]_vars

C20_Witness ==
    /\ unit = "oz"
    /\ Len(detectedObjects) > 0
    /\ volumeInMl > 0
    /\ confidence # <<>>
    /\ DisplayVolume(volumeInMl, unit) # DisplayVolume(volumeInMl, "ml")

----------------------------------------------------------------------------
(* What the render of Home shows of the permission status. *)

(* page.tsx:196-203: the "Camera Access Required" Alert *)
AlertShown(h) == h.mounted /\ h.hasCameraPermission = "false"

(* page.tsx:235: disabled={!hasCameraPermission} *)
SwitchDisabled(h) == h.hasCameraPermission # "true"

(* The getUserMedia request issued last has completed and was rejected: it
   is no longer awaited and delivered no stream.  While the view is mounted
   the stream of the request issued last has not been stopped, since the
   stream effect stops tracks only when it runs again or is cleaned up. *)
LatestRequestDenied(h) ==
    /\ h.camCount > 0
    /\ [id |-> h.camCount] \notin h.camCalls
    /\ h.camCount \notin h.liveStreams

(* C21: in every state of the mounted view in which the camera request
   issued last was denied, the "Camera Access Required" notice is shown and
   the detection switch is disabled; so the notice stays until a request
   issued later succeeds. *)
C21_NoticeWhileDenied ==
    (mounted /\ LatestRequestDenied(St)) => (AlertShown(St) /\ SwitchDisabled(St))

(* C22: once the detector model has failed to load, exactly one "Model Load
   Error" notification has been surfaced, no detector call has been or is
   started, no "Local AI Error" follows, and the detection list is empty,
   whatever the switch and the permission status are. *)
C22_ModelLoadFailure ==
    modelRef = "failed" =>
        /\ toasts["Model Load Error"] = 1
        /\ toasts["Local AI model loaded"] = 0
        /\ toasts["Local AI Error"] = 0
        /\ detectCount = 0
        /\ detectCalls = {}
        /\ detectedObjects = <<>>

C22_Witness ==
    /\ modelRef = "failed"
    /\ mounted
    /\ isDetecting
    /\ hasCameraPermission = "true"
    /\ videoReady
    /\ camCount = 2
    /\ toasts["Camera Access Denied"] = 1

(* C23: detector calls are numbered in the order of the timer ticks that
   started them; when the result of a call is applied to the list of the
   mounted view, no call started at a later tick has completed before it. *)
C23_ResultsInTickOrder ==
    [][ \A c \in detectCalls \ detectCalls' :
            mounted => \A later \in (c + 1)..detectCount : later \in detectCalls ]_vars

(* C24: every state reached with the view unmounted has no active polling
   timer and no camera stream with live tracks, and no step taken after the
   unmount starts a detector call; also when a getUserMedia request was still
   awaited at the unmount. *)
C24_NothingLeftAfterUnmount ==
    [][ ~mounted' =>
            /\ timers' = {}
            /\ liveStreams' = {}
            /\ ~mounted => detectCount' = detectCount ]_vars

(* C25: at most one detector call is in flight in every state; a timer tick
   that fires while a call is awaited starts no second one. *)
C25_OneDetectorCallInFlight ==
    /\ Cardinality(detectCalls) <= 1

(* C26: when a detector result publishes a list equal to the list published
   before it, with the volume estimate unchanged, neither that step nor the
   run of the passive effects it leaves pending issues a request to the
   confidence service. *)
C26_NoRequestWithoutChange ==
    [][ \A c \in detectCalls \ detectCalls' :
            (mounted /\ detectedObjects' = detectedObjects /\ volumeInMl' = volumeInMl)
                => /\ confCount' = confCount
                   /\ Flush(St)'.confCount = confCount ]_vars

(* C27: in every state of the mounted view with detection disabled, the
   model not loaded or the video not ready, the call of runObjectDetection
   made by a tick of an active timer that can fire in that state starts no
   detector call and leaves the published detection list empty. *)
C27_GuardedTickClears ==
    (mounted /\ (~isDetecting \/ modelRef # "loaded" \/ ~videoReady))
        => \A t \in timers :
               LET n == RunObjectDetection(St, t)
               IN  ((DetectionGuardFails(St, t) /\ t.len > 0) => CommitAllowed(St))
                       => /\ n.detectCount = detectCount
                          /\ n.detectCalls = detectCalls
                          /\ n.detectedObjects = <<>>

(* C28: in every state of the mounted view with no confidence request in
   flight and no passive effect pending, a published confidence that is not
   null implies that detection is enabled and the detection list is not
   empty. *)
C28_ConfidenceOnlyWhileDetecting ==
    (mounted /\ confCalls = {} /\ ~EffectsPending(St) /\ confidence # <<>>)
        => (isDetecting /\ Len(detectedObjects) > 0)

(* C29: when a getUserMedia request superseded by a facing-mode switch
   completes in the mounted view, its stream is not attached to the video
   element; and when a request issued after it has already completed, the
   permission status held by Home is left as that newer request set it. *)
C29_LatestRequestWins ==
    [][ \A r \in camCalls \ camCalls' :
            (mounted /\ r.id < camCount)
                => /\ srcObject' = srcObject
                   /\ (\E later \in (r.id + 1)..camCount : [id |-> later] \notin camCalls)
                          => hasCameraPermission' = hasCameraPermission ]_vars

(* page.tsx:247: disabled={!isSimulating} *)
SliderDisabled(h) == Len(h.detectedObjects) > 0

(* C30: while the detection list of the mounted view is non-empty the slider
   is disabled and no step changes the slider value; and whenever the list is
   empty the displayed level is the slider value, which is therefore the
   value from before the detection began. *)
C30_SliderValueKept ==
    [][ (mounted /\ mounted')
            => /\ Len(detectedObjects) > 0
                    => (SliderDisabled(St) /\ liquidLevel' = liquidLevel)
               /\ Len(detectedObjects') = 0
                    => /\ LiquidLevelProp' = liquidLevel'
                       /\ dynamicLiquidLevel' = liquidLevel'
                       /\ ~SliderDisabled(St)' ]_vars

C30_Witness ==
    /\ mounted
    /\ Len(detectedObjects) = 0
    /\ ~EffectsPending(St)
    /\ liquidLevel = 100
    /\ LiquidLevelProp = 100
    /\ confCount >= 1
    /\ detectCalls = {}

====
